---- MODULE Spec2Model ----
(***************************************************************************)
(* Model of proxyd's ConsensusPoller (optimism/proxyd/consensus_poller.go). *)
(*                                                                         *)
(* The poller keeps, per backend of a fixed pool, the last block it saw    *)
(* (backendState), and resolves from these the block number the live       *)
(* backends agree on (tracker) and the backends that agree                 *)
(* (consensusGroup).                                                       *)
(*                                                                         *)
(* hexutil.Uint64 values are kept modulo 2^64 in two's-complement form: a  *)
(* value v < 2^63 is the integer v, a value v >= 2^63 is the integer       *)
(* v - 2^64 (so 2^64-1 is -1).  Subtraction is then integer subtraction    *)
(* and the unsigned order is ULt.                                          *)
(***************************************************************************)
EXTENDS Integers, Sequences, FiniteSets, TLC

\* Size of the backend pool (bg.Backends), in pool order 1..NumBackends.
NumBackends == 2

\* Highest block number a backend's chain reaches.
MaxHeight == 2

Backends == 1 .. NumBackends

\* The nil *Backend, the zero value of an entry of make([]*Backend, n).
Nil == 0

\* The empty string, the zero value of latestBlockHash and proposedBlockHash.
EmptyHash == <<>>

\* A backend's chain is the main chain below its fork point and a side chain
\* of its own from the fork point on.  NoFork: the backend is on the main chain.
NoFork == MaxHeight + 1

ForkPoints == {0, 1, NoFork}

\* What a backend answers to the poller:
\*   "ok"          online, not rate limited, not banned, RPC answers
\*   "rpcfail"     as "ok" but ForwardRPC returns an error
\*   "malformed"   as "ok" but the result is an object with no "number" string
\*   "offline"     Online() is false
\*   "ratelimited" IsRateLimited() is true
\*   "banned"      time.Now() is before bannedUntil
Statuses == {"ok", "rpcfail", "malformed", "offline", "ratelimited", "banned"}

VARIABLES
    status,          \* backend -> Statuses
    head,            \* backend -> number of the backend's latest block
    forkAt,          \* backend -> fork point of the backend's chain
    backendState,    \* cp.backendState: backend -> [latestBlockNumber, latestBlockHash]
    tracker,         \* cp.tracker: the consensus block number
    consensusGroup,  \* cp.consensusGroup: sequence of backends
    last,            \* what the handler that ran last did (calls, logs, metrics, result)
    crashed,         \* a goroutine panicked: the process is gone
    backendStateMux, \* backend -> the task that holds bs.backendStateMux
    consensusGroupMux, \* the task that holds cp.consensusGroupMux
    local,           \* task -> the local variables of its handler, step by step
    pc,              \* PollerAsyncHandler: task -> where its goroutine is
    timerFired,      \* PollerAsyncHandler: task -> its timer's channel is ready
    cancelled,       \* ctx.Done() is closed
    shutdowns,       \* calls of Shutdown made
    pending,         \* the group UpdateBackendGroupConsensus has still to store
    seenNumber,      \* a reader: what GetConsensusBlockNumber returned to it
    seenGroup,       \* a reader: what GetConsensusGroup returned to it
    views            \* the (number, group) pairs published while the reader reads

vars == <<status, head, forkAt, backendState, tracker, consensusGroup, last,
          crashed, backendStateMux, consensusGroupMux, local, pc, timerFired, cancelled, shutdowns, pending, seenNumber, seenGroup, views>>

taskVars == <<pc, timerFired, cancelled, shutdowns>>

readerVars == <<pending, seenNumber, seenGroup, views>>

envVars == <<status, head, forkAt>>

lockVars == <<backendStateMux, consensusGroupMux, local>>

(***************************************************************************)
(* hexutil.Uint64 arithmetic                                               *)
(***************************************************************************)

\* a < b on uint64
ULt(a, b) == IF (a < 0) = (b < 0) THEN a < b ELSE b < 0

\* a >= b on uint64
UGe(a, b) == ~ULt(a, b)

\* a - 1 on uint64; 0 - 1 is 2^64 - 1, which is -1 here
Dec(a) == a - 1

(***************************************************************************)
(* The backends (Backend.Online, Backend.IsRateLimited, Backend.ForwardRPC)*)
(***************************************************************************)

IsRateLimited(b) == status[b] = "ratelimited"

Online(b) == status[b] # "offline"

\* fault: no backend is taken as banned
BannedNever(b) == FALSE

\* time.Now().Before(cp.backendState[be].bannedUntil)
Banned(b) == status[b] = "banned"

\* The hash of block h on the chain that forks at k.
BlockHash(k, h) == IF h < k THEN <<"m", h>> ELSE <<"s", k, h>>

\* return 0, "", err
Failed == [err |-> TRUE, panic |-> FALSE, number |-> 0, hash |-> EmptyHash]

\* jsonMap["number"].(string) on a result object that has no such string: the
\* type assertion panics and fetchBlock does not return
Panicked == [err |-> FALSE, panic |-> TRUE, number |-> 0, hash |-> EmptyHash]

\* fetchBlock(ctx, be, "latest")
fetchLatest(b) ==
    IF status[b] = "rpcfail"
    THEN Failed
    ELSE IF status[b] = "malformed"
    THEN Panicked
    ELSE [err |-> FALSE, panic |-> FALSE,
          number |-> head[b], hash |-> BlockHash(forkAt[b], head[b])]

\* fetchBlock(ctx, be, block.String()): the block with that number, or an
\* error when the RPC fails or the backend has no such block (a null result
\* is not a map).
fetchBlock(b, h) ==
    IF status[b] = "rpcfail"
    THEN Failed
    ELSE IF status[b] = "malformed"
    THEN Panicked
    ELSE IF ULt(head[b], h)
    THEN Failed
    ELSE [err |-> FALSE, panic |-> FALSE,
          number |-> h, hash |-> BlockHash(forkAt[b], h)]

(***************************************************************************)
(* backendState accessors                                                  *)
(***************************************************************************)

ZeroState == [latestBlockNumber |-> 0, latestBlockHash |-> EmptyHash]

getBackendState(b) == backendState[b]

\* fault: a change is detected on the block number
StateChangedByNumber(bs, blockNumber, blockHash) == bs.latestBlockNumber # blockNumber

\* changed = bs.latestBlockHash != blockHash
StateChanged(bs, blockNumber, blockHash) == bs.latestBlockHash # blockHash

\* the state setBackendState leaves
StateSet(bs, blockNumber, blockHash) ==
    [latestBlockNumber |-> blockNumber, latestBlockHash |-> blockHash]

setBackendState(bs, blockNumber, blockHash) ==
    [state |-> StateSet(bs, blockNumber, blockHash),
     changed |-> StateChanged(bs, blockNumber, blockHash)]

(***************************************************************************)
(* What a handler did                                                      *)
(***************************************************************************)

NoLast ==
    [op |-> "none",
     be |-> Nil,                    \* the backend UpdateBackend was called for
     fetches |-> {},                \* the fetchBlock calls made: <<backend, block>>
     failed |-> {},                 \* those of them that returned an error
     panicked |-> FALSE,            \* a fetchBlock call panicked
     number |-> 0,                  \* the block given to setBackendState
     hash |-> EmptyHash,
     previous |-> ZeroState,        \* the state setBackendState found
     stored |-> FALSE,              \* setBackendState was called (lastUpdate is set)
     changed |-> FALSE,             \* setBackendState's result
     recorded |-> FALSE,            \* RecordBackendLatestBlock was called
     current |-> 0,                 \* currentConsensusBlockNumber
     lowestBlock |-> 0,
     lowestBlockHash |-> EmptyHash,
     published |-> FALSE,           \* SetConsensusBlockNumber was called
     proposedBlock |-> 0,
     proposedBlockHash |-> EmptyHash,
     rounds |-> 0,                  \* iterations of the for !hasConsensus loop
     broken |-> FALSE,              \* "consensus broken" was logged
     disagreed |-> {},              \* the proposed blocks a backend did not match
     filtered |-> {},               \* filteredBackendsNames of the last round
     returned |-> <<>>]             \* GetConsensusGroup's result

(***************************************************************************)
(* UpdateBackendGroupConsensus                                             *)
(***************************************************************************)

\* fault: the ban is not looked at
FilteredIgnoringBan(b) == IsRateLimited(b) \/ ~Online(b)

\* fault: no backend is filtered
FilteredNone(b) == FALSE

\* be.IsRateLimited() || !be.Online() || time.Now().Before(bannedUntil)
Filtered(b) == IsRateLimited(b) \/ ~Online(b) \/ Banned(b)

\* The loop over the pool that finds lowestBlock and lowestBlockHash.
RECURSIVE LowestFrom(_, _)
LowestFrom(i, lowest) ==
    IF i > NumBackends
    THEN lowest
    ELSE LET bs == getBackendState(i)
         IN  LowestFrom(i + 1,
                 IF lowest.latestBlockNumber = 0
                    \/ ULt(bs.latestBlockNumber, lowest.latestBlockNumber)
                 THEN bs
                 ELSE lowest)

Lowest == LowestFrom(1, ZeroState)

\* fault: the cycle goes on with no block recorded
NoBlockToProposeNever(lowestBlock) == FALSE

\* no block to propose (i.e. initializing consensus)
NoBlockToPropose(lowestBlock) == lowestBlock = 0

\* fault: the hashes are not compared
BlocksDontMatchByNumber(actual, proposedBlock, proposedBlockHash) ==
    actual.number # proposedBlock

BlocksDontMatch(actual, proposedBlock, proposedBlockHash) ==
    (actual.number # proposedBlock) \/ (actual.hash # proposedBlockHash)

\* fault: > for >=
BrokeConsensusStrict(current, actualBlockNumber) == ULt(actualBlockNumber, current)

\* currentConsensusBlockNumber >= actualBlockNumber
BrokeConsensus(current, actualBlockNumber) == UGe(current, actualBlockNumber)

\* fault: the walk steps over a block
NextProposedSkipping(proposedBlock) == Dec(Dec(proposedBlock))

\* walk one block behind and try again
NextProposed(proposedBlock) == Dec(proposedBlock)

\* One pass of the inner loop over the pool, from backend i on.  r carries
\* proposedBlockHash, consensusBackends, filteredBackendsNames, allAgreed and
\* broken, and the calls made so far.
RECURSIVE RoundFrom(_, _, _, _)
RoundFrom(i, proposedBlock, current, r) ==
    IF i > NumBackends
    THEN r
    ELSE IF Filtered(i)
    THEN RoundFrom(i + 1, proposedBlock, current,
                   [r EXCEPT !.filtered = @ \cup {i}])
    ELSE LET actual == fetchBlock(i, proposedBlock)
             called == [r EXCEPT !.fetches = @ \cup {<<i, proposedBlock>>}]
         IN  IF actual.panic
             THEN [called EXCEPT !.panicked = TRUE, !.allAgreed = FALSE]
             ELSE IF actual.err
             THEN RoundFrom(i + 1, proposedBlock, current,
                            [called EXCEPT !.failed = @ \cup {<<i, proposedBlock>>}])
             ELSE LET hash == IF r.hash = EmptyHash THEN actual.hash ELSE r.hash
                  IN  IF BlocksDontMatch(actual, proposedBlock, hash)
                      THEN [called EXCEPT
                               !.hash = hash,
                               !.broken = @ \/ BrokeConsensus(current, actual.number),
                               !.disagreed = @ \cup {proposedBlock},
                               !.allAgreed = FALSE]
                      ELSE RoundFrom(i + 1, proposedBlock, current,
                                     [called EXCEPT
                                         !.hash = hash,
                                         !.group = Append(@, i)])

\* The for !hasConsensus loop, from the round that proposes proposedBlock on.
RECURSIVE Walk(_, _, _, _)
Walk(proposedBlock, proposedBlockHash, current, w) ==
    LET r == RoundFrom(1, proposedBlock, current,
                 [hash |-> proposedBlockHash,
                  group |-> <<>>,
                  filtered |-> {},
                  allAgreed |-> TRUE,
                  panicked |-> FALSE,
                  broken |-> w.broken,
                  disagreed |-> w.disagreed,
                  fetches |-> w.fetches,
                  failed |-> w.failed])
        done == [proposedBlock |-> proposedBlock,
                 proposedBlockHash |-> r.hash,
                 group |-> r.group,
                 filtered |-> r.filtered,
                 broken |-> r.broken,
                 disagreed |-> r.disagreed,
                 fetches |-> r.fetches,
                 failed |-> r.failed,
                 panicked |-> r.panicked,
                 rounds |-> w.rounds + 1]
    IN  IF r.allAgreed \/ r.panicked
        THEN done
        ELSE Walk(NextProposed(proposedBlock), EmptyHash, current, done)

WalkStart ==
    [rounds |-> 0, broken |-> FALSE, disagreed |-> {}, fetches |-> {}, failed |-> {},
     panicked |-> FALSE]

\* The cycle up to its result: whether it publishes, the proposed block, the
\* consensus backends, and what it did.
Resolution ==
    LET current == tracker
        lowest == Lowest
        lowestBlock == lowest.latestBlockNumber
        lowestBlockHash == lowest.latestBlockHash
        began == [NoLast EXCEPT
                     !.op = "UpdateBackendGroupConsensus",
                     !.current = current,
                     !.lowestBlock = lowestBlock,
                     !.lowestBlockHash = lowestBlockHash]
    IN  IF NoBlockToPropose(lowestBlock)
        THEN [published |-> FALSE,
              panicked |-> FALSE,
              proposedBlock |-> tracker,
              consensusBackends |-> consensusGroup,
              did |-> began]
        ELSE LET w == Walk(lowestBlock, lowestBlockHash, current, WalkStart)
             IN  [published |-> ~w.panicked,
                  panicked |-> w.panicked,
                  proposedBlock |-> w.proposedBlock,
                  consensusBackends |-> w.group,
                  did |-> [began EXCEPT
                              !.published = ~w.panicked,
                              !.panicked = w.panicked,
                              !.proposedBlock = w.proposedBlock,
                              !.proposedBlockHash = w.proposedBlockHash,
                              !.rounds = w.rounds,
                              !.broken = w.broken,
                              !.disagreed = w.disagreed,
                              !.fetches = w.fetches,
                              !.failed = w.failed,
                              !.filtered = w.filtered]]

\* The whole cycle, run with nothing else in between.
UpdateBackendGroupConsensus ==
    \E r \in {Resolution} :
        /\ ~crashed
        /\ tracker' = (IF r.published THEN r.proposedBlock ELSE tracker)
        /\ consensusGroup' = (IF r.published THEN r.consensusBackends ELSE consensusGroup)
        /\ crashed' = r.panicked
        /\ last' = r.did
        /\ UNCHANGED <<envVars, backendState>>

(***************************************************************************)
(* UpdateBackend                                                           *)
(***************************************************************************)

UpdateBackend(be) ==
    LET began == [NoLast EXCEPT !.op = "UpdateBackend", !.be = be]
    IN  /\ ~crashed
        /\ IF Banned(be) \/ IsRateLimited(be) \/ ~Online(be)
           THEN /\ last' = began
                /\ UNCHANGED <<envVars, backendState, tracker, consensusGroup, crashed>>
           ELSE LET latest == fetchLatest(be)
                 called == [began EXCEPT !.fetches = {<<be, "latest">>}]
             IN  IF latest.panic
                 THEN /\ last' = [called EXCEPT !.panicked = TRUE]
                      /\ crashed' = TRUE
                      /\ UNCHANGED <<envVars, backendState, tracker, consensusGroup>>
                 ELSE IF latest.err
                 THEN /\ last' = [called EXCEPT !.failed = {<<be, "latest">>}]
                      /\ UNCHANGED <<envVars, backendState, tracker, consensusGroup, crashed>>
                 ELSE LET set == setBackendState(backendState[be],
                                                 latest.number, latest.hash)
                      IN  /\ backendState' = [backendState EXCEPT ![be] = set.state]
                          /\ last' = [called EXCEPT
                                         !.stored = TRUE,
                                         !.number = latest.number,
                                         !.hash = latest.hash,
                                         !.changed = set.changed,
                                         !.recorded = set.changed]
                          /\ UNCHANGED <<envVars, tracker, consensusGroup, crashed>>

(***************************************************************************)
(* The accessors                                                           *)
(***************************************************************************)

\* g := make([]*Backend, len(cp.backendGroup.Backends)); copy(g, cp.consensusGroup)
CopyOfGroup(group) ==
    [i \in 1 .. NumBackends |-> IF i <= Len(group) THEN group[i] ELSE Nil]

GetConsensusGroup ==
    /\ ~crashed
    /\ last' = [NoLast EXCEPT
                   !.op = "GetConsensusGroup",
                   !.returned = CopyOfGroup(consensusGroup)]
    /\ UNCHANGED <<envVars, backendState, tracker, consensusGroup, crashed>>

(***************************************************************************)
(* The backends change on their own                                        *)
(***************************************************************************)

SetStatus(b, s) ==
    /\ ~crashed
    /\ s # status[b]
    /\ status' = [status EXCEPT ![b] = s]
    /\ last' = NoLast
    /\ UNCHANGED <<head, forkAt, backendState, tracker, consensusGroup, crashed>>

\* the backend's chain grows, or is cut back
SetHead(b, h) ==
    /\ ~crashed
    /\ h # head[b]
    /\ head' = [head EXCEPT ![b] = h]
    /\ last' = NoLast
    /\ UNCHANGED <<status, forkAt, backendState, tracker, consensusGroup, crashed>>

\* the backend's side chain is dropped: it moves to the main chain, and the
\* blocks it has from its fork point on are replaced
Reorg(b) ==
    /\ ~crashed
    /\ forkAt[b] # NoFork
    /\ forkAt' = [forkAt EXCEPT ![b] = NoFork]
    /\ last' = NoLast
    /\ UNCHANGED <<status, head, backendState, tracker, consensusGroup, crashed>>

(***************************************************************************)
(* The goroutines of PollerAsyncHandler and a reader, as NewConsensusPoller *)
(* leaves them                                                             *)
(***************************************************************************)

\* The task of the group consensus poller; task be is backend be's poller.
GroupTask == 0

Tasks == {GroupTask} \cup Backends

\* every goroutine has made its first timer and is about to run its handler
InitTasks ==
    /\ pc = [t \in Tasks |-> "run"]
    /\ timerFired = [t \in Tasks |-> FALSE]
    /\ cancelled = FALSE
    /\ shutdowns = 0

\* the caller of GetConsensusGroup, beside the tasks
Reader == NumBackends + 1

\* the mutex is free
NoHolder == 0 - 1

\* the local variables of a handler that is not running
Idle ==
    [i |-> 0,                       \* the backend the loop over the pool is at
     number |-> 0,                  \* blockNumber, latestBlockNumber, actualBlockNumber
     hash |-> EmptyHash,            \* blockHash, latestBlockHash, actualBlockHash
     lowest |-> ZeroState,          \* lowestBlock, lowestBlockHash
     current |-> 0,                 \* currentConsensusBlockNumber
     proposedBlock |-> 0,
     proposedBlockHash |-> EmptyHash,
     group |-> <<>>,                \* consensusBackends
     allAgreed |-> TRUE,
     broken |-> FALSE]

InitLocks ==
    /\ backendStateMux = [b \in Backends |-> NoHolder]
    /\ consensusGroupMux = NoHolder
    /\ local = [t \in Tasks |-> Idle]

InitReader ==
    /\ pending = <<>>
    /\ seenNumber = <<>>
    /\ seenGroup = <<>>
    /\ views = {}

(***************************************************************************)
(* The poller driven call by call (NoopAsyncHandler)                       *)
(***************************************************************************)

\* NewConsensusPoller: one zero backendState per backend, an in-memory
\* tracker at 0, no consensus group.
Init ==
    /\ status \in [Backends -> Statuses]
    /\ head \in [Backends -> 1 .. MaxHeight]
    /\ forkAt \in [Backends -> ForkPoints]
    /\ backendState = [b \in Backends |-> ZeroState]
    /\ tracker = 0
    /\ consensusGroup = <<>>
    /\ last = NoLast
    /\ crashed = FALSE
    /\ InitTasks
    /\ InitLocks
    /\ InitReader

Next ==
    \/ \E be \in Backends : UpdateBackend(be) /\ UNCHANGED <<taskVars, readerVars, lockVars>>
    \/ UpdateBackendGroupConsensus /\ UNCHANGED <<taskVars, readerVars, lockVars>>
    \/ GetConsensusGroup /\ UNCHANGED <<taskVars, readerVars, lockVars>>
    \/ \E b \in Backends, s \in Statuses :
          SetStatus(b, s) /\ UNCHANGED <<taskVars, readerVars, lockVars>>
    \/ \E b \in Backends, h \in 1 .. MaxHeight :
          SetHead(b, h) /\ UNCHANGED <<taskVars, readerVars, lockVars>>
    \/ \E b \in Backends : Reorg(b) /\ UNCHANGED <<taskVars, readerVars, lockVars>>

Spec == Init /\ [][Next]_vars

(***************************************************************************)
(* setBackendState on its own, for any stored state and any block given    *)
(***************************************************************************)

Hashes == {EmptyHash} \cup {BlockHash(k, h) : k \in ForkPoints, h \in 0 .. MaxHeight}

StoredStates == [latestBlockNumber : 0 .. MaxHeight, latestBlockHash : Hashes]

InitSetState ==
    /\ status = [b \in Backends |-> "ok"]
    /\ head = [b \in Backends |-> 1]
    /\ forkAt = [b \in Backends |-> NoFork]
    /\ \E be \in Backends, bs \in StoredStates :
          backendState = [b \in Backends |-> IF b = be THEN bs ELSE ZeroState]
    /\ tracker = 0
    /\ consensusGroup = <<>>
    /\ last = NoLast
    /\ crashed = FALSE
    /\ InitTasks
    /\ InitLocks
    /\ InitReader

\* one call on the state drawn
SetBackendState(be, blockNumber, blockHash) ==
    LET set == setBackendState(backendState[be], blockNumber, blockHash)
    IN  /\ last.op = "none"
        /\ backendState' = [backendState EXCEPT ![be] = set.state]
        /\ last' = [NoLast EXCEPT
                       !.op = "setBackendState",
                       !.be = be,
                       !.number = blockNumber,
                       !.hash = blockHash,
                       !.previous = backendState[be],
                       !.changed = set.changed]
        /\ UNCHANGED <<envVars, tracker, consensusGroup, crashed, taskVars, readerVars, lockVars>>

NextSetState ==
    \E be \in Backends, blockNumber \in 0 .. MaxHeight, blockHash \in Hashes :
        SetBackendState(be, blockNumber, blockHash)

SpecSetState == InitSetState /\ [][NextSetState]_vars

(***************************************************************************)
(* PollerAsyncHandler: one goroutine per backend and one for the group,    *)
(* each  for { timer := NewTimer; handler; select { timer.C | ctx.Done } } *)
(***************************************************************************)

\* Calls of Shutdown the model makes.
MaxShutdowns == 2

\* ah.cp.UpdateBackend(ah.ctx, be) or ah.cp.UpdateBackendGroupConsensus(ah.ctx)
TaskRun(t) ==
    /\ pc[t] = "run"
    /\ IF t = GroupTask THEN UpdateBackendGroupConsensus ELSE UpdateBackend(t)
    /\ pc' = [pc EXCEPT ![t] = "wait"]
    /\ UNCHANGED <<timerFired, cancelled, shutdowns, readerVars, lockVars>>

\* PollerInterval has passed since the task made its timer
TimerFires(t) ==
    /\ pc[t] \in {"run", "wait"}
    /\ ~timerFired[t]
    /\ timerFired' = [timerFired EXCEPT ![t] = TRUE]
    /\ UNCHANGED <<envVars, backendState, tracker, consensusGroup, last, crashed, lockVars,
                   pc, cancelled, shutdowns, readerVars>>

\* case <-timer.C: the loop goes round and makes a new timer
SelectTimer(t) ==
    /\ pc[t] = "wait"
    /\ timerFired[t]
    /\ pc' = [pc EXCEPT ![t] = "run"]
    /\ timerFired' = [timerFired EXCEPT ![t] = FALSE]
    /\ UNCHANGED <<envVars, backendState, tracker, consensusGroup, last, crashed, lockVars,
                   cancelled, shutdowns, readerVars>>

\* case <-ah.ctx.Done(): timer.Stop(); return
SelectDone(t) ==
    /\ pc[t] = "wait"
    /\ cancelled
    /\ pc' = [pc EXCEPT ![t] = "done"]
    /\ UNCHANGED <<envVars, backendState, tracker, consensusGroup, last, crashed, lockVars,
                   timerFired, cancelled, shutdowns, readerVars>>

\* cp.Shutdown() -> ah.cp.cancelFunc()
Shutdown ==
    /\ shutdowns < MaxShutdowns
    /\ shutdowns' = shutdowns + 1
    /\ cancelled' = TRUE
    /\ UNCHANGED <<envVars, backendState, tracker, consensusGroup, last, crashed, lockVars,
                   pc, timerFired, readerVars>>

\* the pool: every backend online, at block 1 of the main chain
InitPool ==
    /\ status = [b \in Backends |-> "ok"]
    /\ head = [b \in Backends |-> 1]
    /\ forkAt = [b \in Backends |-> NoFork]
    /\ backendState = [b \in Backends |-> ZeroState]
    /\ tracker = 0
    /\ consensusGroup = <<>>
    /\ last = NoLast
    /\ crashed = FALSE
    /\ InitTasks
    /\ InitLocks
    /\ InitReader

NextShutdown ==
    \/ \E t \in Tasks :
          \/ TaskRun(t)
          \/ TimerFires(t)
          \/ SelectTimer(t)
          \/ SelectDone(t)
    \/ Shutdown

\* A handler that is called returns, and of the selects that find ctx.Done()
\* closed again and again one takes that case in the end (Go picks at random
\* among the cases that are ready).
SpecShutdown ==
    /\ InitPool
    /\ [][NextShutdown]_vars
    /\ \A t \in Tasks : WF_vars(TaskRun(t))
    /\ SF_vars(\E t \in Tasks : SelectDone(t))

(***************************************************************************)
(* A reader beside a resolution cycle.  The cycle stores the proposed block *)
(* in the tracker and then, under consensusGroupMux, the group.            *)
(***************************************************************************)

\* the reader has made one of its two calls
Reading == (seenNumber = <<>>) # (seenGroup = <<>>)

\* the pair published last: while a cycle is between its two stores, the
\* pair from before the cycle
StablePair ==
    IF pending = <<>>
    THEN <<tracker, consensusGroup>>
    ELSE <<pending[1].was, consensusGroup>>

\* UpdateBackendGroupConsensus up to cp.tracker.SetConsensusBlockNumber
ResolveAndSetNumber ==
    \E r \in {Resolution} :
        /\ ~crashed
        /\ pending = <<>>
        /\ tracker' = (IF r.published THEN r.proposedBlock ELSE tracker)
        /\ pending' = (IF r.published
                       THEN <<[group |-> r.consensusBackends, was |-> tracker]>>
                       ELSE <<>>)
        /\ last' = r.did
        /\ crashed' = r.panicked
        /\ UNCHANGED <<envVars, backendState, consensusGroup, taskVars, lockVars,
                       seenNumber, seenGroup, views>>

\* cp.consensusGroup = consensusBackends, under consensusGroupMux
StoreGroup ==
    /\ pending # <<>>
    /\ consensusGroup' = pending[1].group
    /\ pending' = <<>>
    /\ views' = (IF Reading THEN views \cup {<<tracker, pending[1].group>>} ELSE views)
    /\ UNCHANGED <<envVars, backendState, tracker, last, crashed, taskVars, lockVars,
                   seenNumber, seenGroup>>

\* ct.tracker.GetConsensusBlockNumber(), as the first or the second call
ReadNumber ==
    /\ seenNumber = <<>> \/ ~Reading
    /\ seenNumber' = <<tracker>>
    /\ IF Reading
       THEN UNCHANGED <<seenGroup, views>>
       ELSE seenGroup' = <<>> /\ views' = {StablePair}
    /\ UNCHANGED <<envVars, backendState, tracker, consensusGroup, last, crashed, lockVars,
                   taskVars, pending>>

\* cp.GetConsensusGroup(), as the first or the second call
ReadGroup ==
    /\ seenGroup = <<>> \/ ~Reading
    /\ seenGroup' = <<CopyOfGroup(consensusGroup)>>
    /\ IF Reading
       THEN UNCHANGED <<seenNumber, views>>
       ELSE seenNumber' = <<>> /\ views' = {StablePair}
    /\ UNCHANGED <<envVars, backendState, tracker, consensusGroup, last, crashed, lockVars,
                   taskVars, pending>>

NextRead ==
    \/ \E be \in Backends : UpdateBackend(be) /\ UNCHANGED <<taskVars, readerVars, lockVars>>
    \/ \E b \in Backends, h \in 1 .. MaxHeight :
          SetHead(b, h) /\ UNCHANGED <<taskVars, readerVars, lockVars>>
    \/ ResolveAndSetNumber
    \/ StoreGroup
    \/ ReadNumber
    \/ ReadGroup

SpecRead == InitPool /\ [][NextRead]_vars

(***************************************************************************)
(* The handlers statement by statement: the mutexes they take and the RPCs  *)
(* they wait for.  A task is at "fetching" from the moment ForwardRPC is     *)
(* called to the moment fetchBlock has its answer.                          *)
(***************************************************************************)

\* the variables no statement of a handler touches
restVars == <<last, timerFired, cancelled, shutdowns, pending, seenNumber, views>>

\* fault: Lock() does not wait
MayLockAlways(holder) == TRUE

\* Lock() returns when the mutex is free
MayLock(holder) == holder = NoHolder

\* fault: Unlock() leaves the mutex with the task
ReleaseNot(t) == t

\* Unlock()
Release(t) == NoHolder

\* a task's statement: its position and its local variables move
Goto(t, position, l) ==
    /\ pc' = [pc EXCEPT ![t] = position]
    /\ local' = [local EXCEPT ![t] = l]

\* UpdateBackend up to the call of ForwardRPC
RefreshCall(be) ==
    /\ ~crashed
    /\ pc[be] = "run"
    /\ ~(Banned(be) \/ IsRateLimited(be) \/ ~Online(be))
    /\ Goto(be, "fetching", Idle)
    /\ UNCHANGED <<envVars, backendState, tracker, consensusGroup, crashed,
                   backendStateMux, consensusGroupMux, seenGroup, restVars>>

\* fetchBlock(ctx, be, "latest") has its answer
RefreshFetched(be) ==
    LET latest == fetchLatest(be)
    IN  /\ ~crashed
        /\ pc[be] = "fetching"
        /\ IF latest.panic
           THEN crashed' = TRUE /\ UNCHANGED <<pc, local>>
           ELSE /\ UNCHANGED crashed
                /\ IF latest.err
                   THEN Goto(be, "run", Idle)
                   ELSE Goto(be, "set_lock",
                             [Idle EXCEPT !.number = latest.number, !.hash = latest.hash])
        /\ UNCHANGED <<envVars, backendState, tracker, consensusGroup,
                       backendStateMux, consensusGroupMux, seenGroup, restVars>>

\* setBackendState: bs.backendStateMux.Lock()
SetLock(be) ==
    /\ ~crashed
    /\ pc[be] = "set_lock"
    /\ MayLock(backendStateMux[be])
    /\ backendStateMux' = [backendStateMux EXCEPT ![be] = be]
    /\ Goto(be, "set_number", local[be])
    /\ UNCHANGED <<envVars, backendState, tracker, consensusGroup, crashed,
                   consensusGroupMux, seenGroup, restVars>>

\* changed = ...; bs.latestBlockNumber = blockNumber
SetNumber(be) ==
    /\ ~crashed
    /\ pc[be] = "set_number"
    /\ backendState' = [backendState EXCEPT ![be].latestBlockNumber = local[be].number]
    /\ Goto(be, "set_hash",
            [local[be] EXCEPT !.allAgreed =
                ~StateChanged(backendState[be], local[be].number, local[be].hash)])
    /\ UNCHANGED <<envVars, tracker, consensusGroup, crashed,
                   backendStateMux, consensusGroupMux, seenGroup, restVars>>

\* bs.latestBlockHash = blockHash; bs.lastUpdate = time.Now()
SetHash(be) ==
    /\ ~crashed
    /\ pc[be] = "set_hash"
    /\ backendState' = [backendState EXCEPT ![be].latestBlockHash = local[be].hash]
    /\ Goto(be, "set_unlock", local[be])
    /\ UNCHANGED <<envVars, tracker, consensusGroup, crashed,
                   backendStateMux, consensusGroupMux, seenGroup, restVars>>

\* bs.backendStateMux.Unlock(); setBackendState and UpdateBackend return
SetUnlock(be) ==
    /\ ~crashed
    /\ pc[be] = "set_unlock"
    /\ backendStateMux' = [backendStateMux EXCEPT ![be] = Release(be)]
    /\ Goto(be, "run", Idle)
    /\ UNCHANGED <<envVars, backendState, tracker, consensusGroup, crashed,
                   consensusGroupMux, seenGroup, restVars>>

\* UpdateBackendGroupConsensus: currentConsensusBlockNumber := ...
ResolveBegin ==
    /\ ~crashed
    /\ pc[GroupTask] = "run"
    /\ Goto(GroupTask, "get_lock", [Idle EXCEPT !.i = 1, !.current = tracker])
    /\ UNCHANGED <<envVars, backendState, tracker, consensusGroup, crashed,
                   backendStateMux, consensusGroupMux, seenGroup, restVars>>

\* getBackendState: bs.backendStateMux.Lock()
GetLock ==
    LET l == local[GroupTask]
    IN  /\ ~crashed
        /\ pc[GroupTask] = "get_lock"
        /\ MayLock(backendStateMux[l.i])
        /\ backendStateMux' = [backendStateMux EXCEPT ![l.i] = GroupTask]
        /\ Goto(GroupTask, "get_number", l)
        /\ UNCHANGED <<envVars, backendState, tracker, consensusGroup, crashed,
                       consensusGroupMux, seenGroup, restVars>>

\* blockNumber = bs.latestBlockNumber
GetNumber ==
    LET l == local[GroupTask]
    IN  /\ ~crashed
        /\ pc[GroupTask] = "get_number"
        /\ Goto(GroupTask, "get_hash",
                [l EXCEPT !.number = backendState[l.i].latestBlockNumber])
        /\ UNCHANGED <<envVars, backendState, tracker, consensusGroup, crashed,
                       backendStateMux, consensusGroupMux, seenGroup, restVars>>

\* blockHash = bs.latestBlockHash
GetHash ==
    LET l == local[GroupTask]
    IN  /\ ~crashed
        /\ pc[GroupTask] = "get_hash"
        /\ Goto(GroupTask, "get_unlock",
                [l EXCEPT !.hash = backendState[l.i].latestBlockHash])
        /\ UNCHANGED <<envVars, backendState, tracker, consensusGroup, crashed,
                       backendStateMux, consensusGroupMux, seenGroup, restVars>>

\* the local variables at the start of a round of the for !hasConsensus loop
RoundStart(l, proposedBlock, proposedBlockHash) ==
    [l EXCEPT !.proposedBlock = proposedBlock,
              !.proposedBlockHash = proposedBlockHash,
              !.i = 1,
              !.group = <<>>,
              !.allAgreed = TRUE]

\* bs.backendStateMux.Unlock(); getBackendState returns and the loop that
\* finds lowestBlock goes on, or ends
GetUnlock ==
    LET l == local[GroupTask]
        lowest == IF l.lowest.latestBlockNumber = 0
                     \/ ULt(l.number, l.lowest.latestBlockNumber)
                  THEN [latestBlockNumber |-> l.number, latestBlockHash |-> l.hash]
                  ELSE l.lowest
    IN  /\ ~crashed
        /\ pc[GroupTask] = "get_unlock"
        /\ backendStateMux' = [backendStateMux EXCEPT ![l.i] = Release(GroupTask)]
        /\ IF l.i < NumBackends
           THEN Goto(GroupTask, "get_lock", [l EXCEPT !.lowest = lowest, !.i = @ + 1])
           ELSE IF NoBlockToPropose(lowest.latestBlockNumber)
           THEN Goto(GroupTask, "run", Idle)
           ELSE Goto(GroupTask, "round",
                     RoundStart([l EXCEPT !.lowest = lowest],
                                lowest.latestBlockNumber, lowest.latestBlockHash))
        /\ UNCHANGED <<envVars, backendState, tracker, consensusGroup, crashed,
                       consensusGroupMux, seenGroup, restVars>>

\* the end of a round: hasConsensus, or walk one block behind and try again
RoundEnd(l) ==
    IF l.allAgreed
    THEN Goto(GroupTask, "publish", l)
    ELSE Goto(GroupTask, "round", RoundStart(l, NextProposed(l.proposedBlock), EmptyHash))

\* the loop over the pool up to the call of ForwardRPC for the next backend
\* that is not filtered
RoundStep ==
    LET l == local[GroupTask]
    IN  /\ ~crashed
        /\ pc[GroupTask] = "round"
        /\ IF l.i > NumBackends
           THEN RoundEnd(l)
           ELSE IF Filtered(l.i)
           THEN Goto(GroupTask, "round", [l EXCEPT !.i = @ + 1])
           ELSE Goto(GroupTask, "fetching", l)
        /\ UNCHANGED <<envVars, backendState, tracker, consensusGroup, crashed,
                       backendStateMux, consensusGroupMux, seenGroup, restVars>>

\* fetchBlock(ctx, be, proposedBlock.String()) has its answer
RoundFetched ==
    LET l == local[GroupTask]
        actual == fetchBlock(l.i, l.proposedBlock)
        hash == IF l.proposedBlockHash = EmptyHash THEN actual.hash ELSE l.proposedBlockHash
    IN  /\ ~crashed
        /\ pc[GroupTask] = "fetching"
        /\ IF actual.panic
           THEN crashed' = TRUE /\ UNCHANGED <<pc, local>>
           ELSE /\ UNCHANGED crashed
                /\ IF actual.err
                   THEN Goto(GroupTask, "round", [l EXCEPT !.i = @ + 1])
                   ELSE IF BlocksDontMatch(actual, l.proposedBlock, hash)
                   THEN RoundEnd([l EXCEPT
                                     !.proposedBlockHash = hash,
                                     !.broken = @ \/ BrokeConsensus(l.current, actual.number),
                                     !.allAgreed = FALSE])
                   ELSE Goto(GroupTask, "round",
                             [l EXCEPT !.proposedBlockHash = hash,
                                       !.group = Append(@, l.i),
                                       !.i = @ + 1])
        /\ UNCHANGED <<envVars, backendState, tracker, consensusGroup,
                       backendStateMux, consensusGroupMux, seenGroup, restVars>>

\* cp.tracker.SetConsensusBlockNumber(proposedBlock)
PublishNumber ==
    /\ ~crashed
    /\ pc[GroupTask] = "publish"
    /\ tracker' = local[GroupTask].proposedBlock
    /\ Goto(GroupTask, "group_lock", local[GroupTask])
    /\ UNCHANGED <<envVars, backendState, consensusGroup, crashed,
                   backendStateMux, consensusGroupMux, seenGroup, restVars>>

\* cp.consensusGroupMux.Lock()
GroupLock ==
    /\ ~crashed
    /\ pc[GroupTask] = "group_lock"
    /\ MayLock(consensusGroupMux)
    /\ consensusGroupMux' = GroupTask
    /\ Goto(GroupTask, "group_store", local[GroupTask])
    /\ UNCHANGED <<envVars, backendState, tracker, consensusGroup, crashed,
                   backendStateMux, seenGroup, restVars>>

\* cp.consensusGroup = consensusBackends
GroupStore ==
    /\ ~crashed
    /\ pc[GroupTask] = "group_store"
    /\ consensusGroup' = local[GroupTask].group
    /\ Goto(GroupTask, "group_unlock", local[GroupTask])
    /\ UNCHANGED <<envVars, backendState, tracker, crashed,
                   backendStateMux, consensusGroupMux, seenGroup, restVars>>

\* cp.consensusGroupMux.Unlock(); UpdateBackendGroupConsensus returns
GroupUnlock ==
    /\ ~crashed
    /\ pc[GroupTask] = "group_unlock"
    /\ consensusGroupMux' = Release(GroupTask)
    /\ Goto(GroupTask, "run", Idle)
    /\ UNCHANGED <<envVars, backendState, tracker, consensusGroup, crashed,
                   backendStateMux, seenGroup, restVars>>

\* GetConsensusGroup: cp.consensusGroupMux.Lock()
ReaderLock ==
    /\ ~crashed
    /\ consensusGroupMux # Reader
    /\ MayLock(consensusGroupMux)
    /\ consensusGroupMux' = Reader
    /\ UNCHANGED <<envVars, backendState, tracker, consensusGroup, crashed,
                   backendStateMux, local, pc, seenGroup, restVars>>

\* g := make(...); copy(g, cp.consensusGroup); return g, with the deferred
\* cp.consensusGroupMux.Unlock()
ReaderCopy ==
    /\ ~crashed
    /\ consensusGroupMux = Reader
    /\ seenGroup' = <<CopyOfGroup(consensusGroup)>>
    /\ consensusGroupMux' = Release(Reader)
    /\ UNCHANGED <<envVars, backendState, tracker, consensusGroup, crashed,
                   backendStateMux, local, pc, restVars>>

NextLocks ==
    \/ \E be \in Backends :
          \/ RefreshCall(be)
          \/ RefreshFetched(be)
          \/ SetLock(be)
          \/ SetNumber(be)
          \/ SetHash(be)
          \/ SetUnlock(be)
    \/ ResolveBegin
    \/ GetLock
    \/ GetNumber
    \/ GetHash
    \/ GetUnlock
    \/ RoundStep
    \/ RoundFetched
    \/ PublishNumber
    \/ GroupLock
    \/ GroupStore
    \/ GroupUnlock
    \/ ReaderLock
    \/ ReaderCopy
    \/ \E b \in Backends, h \in 1 .. MaxHeight :
          /\ h > head[b]
          /\ SetHead(b, h)
          /\ UNCHANGED <<taskVars, readerVars, lockVars>>

SpecLocks == InitPool /\ [][NextLocks]_vars

(***************************************************************************)
(* Properties of the resolution cycle                                      *)
(***************************************************************************)

\* online, not rate limited and not banned
Healthy(b) == status[b] \in {"ok", "rpcfail", "malformed"}

HealthyBackends == {b \in Backends : Healthy(b)}

\* the healthy backends in pool order
HealthySeq == SelectSeq([i \in 1 .. NumBackends |-> i], Healthy)

Members(group) == {group[i] : i \in 1 .. Len(group)}

\* the handler that ran last is a resolution cycle that ran to its end;
\* nothing changed since
Resolved == last.op = "UpdateBackendGroupConsensus" /\ ~last.panicked

Published == Resolved /\ last.published

\* C1 - Unanimous agreement: after a resolution cycle run while every healthy
\* backend answers, has the same latest block (h, hash) and has that block
\* recorded, the published group is the healthy backends and the published
\* height is h, whatever is recorded for the other backends.
C1_UnanimousAgreement ==
    \A h \in 1 .. MaxHeight :
        ( /\ Resolved
          /\ HealthyBackends # {}
          /\ \A b \in HealthyBackends :
                /\ fetchLatest(b).err = FALSE
                /\ fetchLatest(b).number = h
                /\ backendState[b].latestBlockNumber = h
                /\ backendState[b].latestBlockHash = fetchLatest(b).hash
          /\ \A a, b \in HealthyBackends : fetchLatest(a).hash = fetchLatest(b).hash )
        => ( /\ last.published
             /\ tracker = h
             /\ consensusGroup = HealthySeq )

\* C2 - Exclusion, as claimed: in every state no member of the published
\* group is offline, rate limited or banned.
C2_NoUnhealthyMemberEver == \A b \in Members(consensusGroup) : Healthy(b)

\* C2 - Exclusion, amended: the group a resolution cycle publishes holds no
\* backend that is offline, rate limited or banned at that cycle.
C2_NoUnhealthyMemberPublished ==
    Published => \A b \in Members(consensusGroup) : Healthy(b)

\* An unhealthy backend whose recorded block is the published one is left out
\* of a published group that is not empty.
C2_Witness ==
    /\ Published
    /\ consensusGroup # <<>>
    /\ \E b \in Backends :
          /\ ~Healthy(b)
          /\ backendState[b].latestBlockNumber = tracker
          /\ backendState[b].latestBlockHash = last.proposedBlockHash

\* the healthy backends that answer a fetch of block h
Responders(h) ==
    {b \in HealthyBackends : ~fetchBlock(b, h).err /\ ~fetchBlock(b, h).panic}

\* every backend that answers returns the same hash for block h
AllSame(h) ==
    \A a, b \in Responders(h) : fetchBlock(a, h).hash = fetchBlock(b, h).hash

\* C3 - Backward search, as claimed, for the cycles that publish at or below
\* the baseline: the published height is the highest height at or below the
\* baseline at which all healthy backends that answer return the same hash,
\* reached one height at a time from the baseline.
C3_HighestCommonHeight ==
    (Published /\ UGe(last.lowestBlock, tracker)) =>
        /\ AllSame(tracker)
        /\ \A h \in (tracker + 1) .. last.lowestBlock : ~AllSame(h)
        /\ last.rounds = last.lowestBlock - tracker + 1

\* the first backend in pool order that answers a fetch of block h
FirstResponder(h) == CHOOSE b \in Responders(h) : \A c \in Responders(h) : b <= c

\* the hash a round that proposes block h compares with: at the baseline the
\* hash recorded with the baseline, else the first hash the round fetches
Reference(h) ==
    IF h = last.lowestBlock /\ last.lowestBlockHash # EmptyHash
    THEN last.lowestBlockHash
    ELSE IF Responders(h) = {}
         THEN EmptyHash
         ELSE fetchBlock(FirstResponder(h), h).hash

AgreedAt(h) == \A b \in Responders(h) : fetchBlock(b, h).hash = Reference(h)

\* C3 - Backward search, amended: the published height is the first height
\* of baseline, baseline-1, ... (on uint64, so 2^64-1 follows 0) at which every
\* healthy backend that answers returns the round's reference hash: at the
\* baseline the hash recorded with the baseline, below it the first hash the
\* round fetches.  One round is run per height and no other height is fetched.
C3_FirstAgreedHeight ==
    Published =>
        /\ AgreedAt(tracker)
        /\ \A h \in (tracker + 1) .. last.lowestBlock : ~AgreedAt(h)
        /\ last.rounds = last.lowestBlock - tracker + 1
        /\ \A f \in last.fetches : f[2] \in tracker .. last.lowestBlock
        /\ last.proposedBlock = tracker

\* Two backends disagree at the baseline and agree one or more blocks behind.
C3_Witness ==
    /\ Published
    /\ last.rounds >= 2
    /\ Len(consensusGroup) >= 2
    /\ tracker >= 0

\* C5 - Broken consensus: a resolution cycle logs "consensus broken" exactly
\* when a healthy backend disagreed at a proposed height at or below the
\* consensus height published before the cycle; disagreements above that
\* height alone log nothing.
C5_BrokenConsensusFlag ==
    Resolved =>
        (last.broken <=> \E p \in last.disagreed : UGe(last.current, p))

\* A cycle that met a disagreement above the previous consensus height and,
\* walking back, one at or below it.
C5_Witness ==
    /\ Published
    /\ last.broken
    /\ last.current > 0
    /\ tracker >= 0
    /\ \E p \in last.disagreed : ULt(last.current, p)
    /\ \E p \in last.disagreed : UGe(last.current, p)

AllZero == \A b \in Backends : backendState[b].latestBlockNumber = 0

\* C6 - No data, no resolution: a resolution cycle run while every recorded
\* height is zero changes neither the tracker nor the consensus group and
\* fetches nothing.
C6_NoDataNoResolution ==
    [][ (AllZero /\ last'.op = "UpdateBackendGroupConsensus")
        => ( /\ tracker' = tracker
             /\ consensusGroup' = consensusGroup
             /\ last'.fetches = {}
             /\ ~last'.published ) ]_vars

\* A cycle has run with every recorded height zero and a healthy backend that
\* would have answered.
C6_Witness ==
    /\ Resolved
    /\ AllZero
    /\ \E b \in Backends : status[b] = "ok"

\* C7 - GetConsensusGroup returns the published group: the same backends in
\* the same order, and nothing else.
C7_ReturnsPublishedGroup ==
    last.op = "GetConsensusGroup" => last.returned = consensusGroup

\* the lowest recorded height of the pool
MinRecorded ==
    CHOOSE m \in {backendState[b].latestBlockNumber : b \in Backends} :
        \A b \in Backends : UGe(backendState[b].latestBlockNumber, m)

\* C10 - Baseline: a resolution cycle starts from the lowest height recorded
\* for any backend of the pool, with the hash recorded for a backend at that
\* height.
C10_BaselineIsMinimum ==
    Resolved =>
        /\ last.lowestBlock = MinRecorded
        /\ \E b \in Backends :
              /\ backendState[b].latestBlockNumber = last.lowestBlock
              /\ backendState[b].latestBlockHash = last.lowestBlockHash

\* C9 - Change detection: setBackendState reports a change exactly when the
\* hash it is given differs from the hash stored before, whatever the block
\* numbers are, and always leaves the block it is given stored.
C9_ChangeDetection ==
    last.op = "setBackendState" =>
        /\ last.changed <=> (last.previous.latestBlockHash # last.hash)
        /\ backendState[last.be].latestBlockNumber = last.number
        /\ backendState[last.be].latestBlockHash = last.hash

\* A call that changed the stored block number and not the hash, and reported
\* no change.
C9_Witness ==
    /\ last.op = "setBackendState"
    /\ last.previous.latestBlockNumber # last.number
    /\ last.previous.latestBlockHash = last.hash
    /\ ~last.changed

\* the entries of a returned list that are backends
Strip(returned) == SelectSeq(returned, LAMBDA b : b # Nil)

\* C4 - Concurrent read safety: the block number and the group a reader gets
\* from its two calls are a pair that was published at some moment of its
\* reading: the pair from before a resolution cycle or the pair the cycle
\* published.
C4_ReaderSeesPublishedPair ==
    (seenNumber # <<>> /\ seenGroup # <<>>)
        => <<seenNumber[1], Strip(seenGroup[1])>> \in views

AllTasksDone == \A t \in Tasks : pc[t] = "done"

\* C8 - Shutdown stops polling: once Shutdown has been called no task goes
\* round its loop to begin another refresh or resolution cycle.
C8_NoCycleAfterShutdown ==
    [][ cancelled => \A t \in Tasks : ~(pc[t] = "wait" /\ pc'[t] = "run") ]_vars

\* The rest of what is said of Shutdown: once it has been called every task
\* terminates in the end and a task that has terminated does not run again,
\* cancellation is never undone, and a second Shutdown changes nothing else.
ShutdownStopsTasksInTheEnd ==
    /\ cancelled ~> AllTasksDone
    /\ [][ /\ \A t \in Tasks : pc[t] = "done" => pc'[t] = "done"
           /\ cancelled => cancelled'
           /\ (cancelled /\ shutdowns' # shutdowns) =>
                 UNCHANGED <<envVars, backendState, tracker, consensusGroup, last,
                             crashed, lockVars, pc, timerFired, cancelled,
                             readerVars>> ]_vars

\* C11 - Group agreement: every backend of the group a resolution cycle
\* publishes passed the filter, was fetched at the published height in that
\* cycle without error, and returns the published height and the published
\* hash for it; so the members agree pairwise, and the group holds no backend
\* twice.
C11_GroupAgreement ==
    Published =>
        /\ \A b \in Members(consensusGroup) :
              /\ Healthy(b)
              /\ <<b, tracker>> \in last.fetches \ last.failed
              /\ fetchBlock(b, tracker) =
                    [err |-> FALSE, panic |-> FALSE,
                     number |-> tracker, hash |-> last.proposedBlockHash]
        /\ \A a, b \in Members(consensusGroup) :
              fetchBlock(a, tracker).hash = fetchBlock(b, tracker).hash
        /\ Cardinality(Members(consensusGroup)) = Len(consensusGroup)

\* After a round that failed on a disagreement the cycle published the whole
\* pool.
C11_Witness ==
    /\ Published
    /\ last.disagreed # {}
    /\ Len(consensusGroup) = NumBackends

\* C12 - Downward-only search: the height a resolution cycle publishes is
\* not greater (on uint64) than the cycle's baseline, and is the baseline
\* less one for each round that failed.
C12_NeverAboveBaseline ==
    Published =>
        /\ UGe(last.lowestBlock, tracker)
        /\ last.rounds = last.lowestBlock - tracker + 1

\* C13 - Resolution termination: a resolution cycle with baseline b ends
\* after at most b backward steps (a backward step follows each round that
\* failed), and after none when every healthy backend that answers agrees
\* with the proposal at the baseline.
C13_AtMostBaselineSteps ==
    Resolved =>
        /\ last.rounds - 1 <= last.lowestBlock
        /\ (last.published /\ AgreedAt(last.lowestBlock)) => last.rounds = 1

\* C15 - Refresh skip: UpdateBackend run for a backend that is banned, rate
\* limited or offline fetches nothing, stores nothing (so lastUpdate is not
\* set), records no metric, and leaves every backend's state, the tracker and
\* the published group as they were.
C15_RefreshSkip ==
    [][ ( /\ last'.op = "UpdateBackend"
          /\ status[last'.be] \in {"banned", "ratelimited", "offline"} )
        => ( /\ last'.fetches = {}
             /\ ~last'.stored
             /\ ~last'.recorded
             /\ backendState' = backendState
             /\ tracker' = tracker
             /\ consensusGroup' = consensusGroup
             /\ crashed' = crashed ) ]_vars

\* A refresh was skipped for a banned backend whose recorded block is no
\* longer its latest.
C15_Witness ==
    /\ last.op = "UpdateBackend"
    /\ status[last.be] = "banned"
    /\ backendState[last.be] # ZeroState
    /\ backendState[last.be].latestBlockNumber # head[last.be]
    /\ last.fetches = {}

\* C16 - Refresh failure: UpdateBackend whose fetch of "latest" fails, by an
\* RPC error or by a malformed response, stores nothing, records no metric,
\* leaves the backend states as they were and leaves the poller running, so
\* that a later refresh can still update the state.
C16_RefreshFailureNonFatal ==
    [][ ( /\ last'.op = "UpdateBackend"
          /\ status[last'.be] \in {"rpcfail", "malformed"} )
        => ( /\ ~last'.stored
             /\ ~last'.recorded
             /\ backendState' = backendState
             /\ ~crashed' ) ]_vars

\* the fetch of block h from backend b does not give a block
FetchFails(b, h) == fetchBlock(b, h).err \/ fetchBlock(b, h).panic

\* C17 - Resolution fetch failure: a resolution cycle with a baseline runs to
\* its end whatever fetches fail; in its final round every healthy backend
\* was fetched, and the group is the healthy backends in pool order less
\* those whose fetch failed.
C17_FetchFailureExcludesOnlyFailing ==
    (last.op = "UpdateBackendGroupConsensus" /\ last.lowestBlock # 0) =>
        /\ ~last.panicked
        /\ last.published
        /\ \A b \in HealthyBackends : <<b, tracker>> \in last.fetches
        /\ consensusGroup =
              SelectSeq(HealthySeq, LAMBDA b : ~FetchFails(b, tracker))

\* C19 - A resolution cycle returns without publishing only when every
\* backend's recorded height is zero.
C19_ReturnsOnlyWhenAllZero ==
    (Resolved /\ ~last.published) => AllZero

\* the height the k-th backward step of the cycle proposes
RoundHeight(k) == last.lowestBlock - k

\* C20 - Vacuous consensus: a round of a resolution cycle in which no healthy
\* backend gives a block (none is healthy, or every fetch fails) is the last
\* round of the cycle: the cycle publishes that round's height with an empty
\* group, and no backend returned a block for that height.
C20_VacuousConsensus ==
    Published =>
        \A k \in 0 .. last.rounds - 1 :
            Responders(RoundHeight(k)) = {} =>
                /\ k = last.rounds - 1
                /\ tracker = RoundHeight(k)
                /\ consensusGroup = <<>>
                /\ \A b \in Backends :
                      <<b, tracker>> \notin last.fetches \ last.failed

\* A cycle published its baseline with an empty group while healthy backends
\* were asked and none gave the block.
C20_Witness ==
    /\ Published
    /\ consensusGroup = <<>>
    /\ tracker = last.lowestBlock
    /\ \E b \in HealthyBackends : <<b, tracker>> \in last.failed

\* A fetched block's hash names its number (BlockHash), and every pair given
\* to setBackendState is a fetched block: so a recorded pair was written by
\* one update, or is the initial pair, exactly when its hash is the hash of a
\* block of its number.
WrittenTogether(number, hash) ==
    IF hash = EmptyHash THEN number = 0 ELSE hash[Len(hash)] = number

\* C14 - Backend state pair atomicity: the pair getBackendState returns to the
\* resolution cycle was written by one update (or is the initial pair),
\* however the refresh of that backend is interleaved; a pair of two updates
\* is in backendState only while the writer holds backendStateMux.
C14_StatePairAtomicity ==
    /\ pc[GroupTask] = "get_unlock" =>
          WrittenTogether(local[GroupTask].number, local[GroupTask].hash)
    /\ \A b \in Backends :
          backendStateMux[b] = NoHolder =>
              WrittenTogether(backendState[b].latestBlockNumber,
                              backendState[b].latestBlockHash)

\* getBackendState has read a recorded pair of a backend while that backend's
\* refresh waits for the mutex with a block of another number to store.
C14_Witness ==
    /\ pc[GroupTask] = "get_unlock"
    /\ local[GroupTask].number # 0
    /\ \E be \in Backends :
          /\ be = local[GroupTask].i
          /\ pc[be] = "set_lock"
          /\ local[be].number # local[GroupTask].number

\* C18 - No lock across RPC: a task that waits on a fetch holds no
\* backendStateMux and not consensusGroupMux; a backendStateMux is held only
\* inside getBackendState and setBackendState, and consensusGroupMux only for
\* the store of the group or its copy.
C18_NoLockAcrossRPC ==
    /\ \A t \in Tasks :
          pc[t] = "fetching" =>
              /\ consensusGroupMux # t
              /\ \A b \in Backends : backendStateMux[b] # t
    /\ consensusGroupMux \in {NoHolder, GroupTask, Reader}
    /\ consensusGroupMux = GroupTask =>
          pc[GroupTask] \in {"group_store", "group_unlock"}
    /\ \A b \in Backends :
          /\ backendStateMux[b] \in {NoHolder, GroupTask, b}
          /\ backendStateMux[b] = GroupTask =>
                /\ pc[GroupTask] \in {"get_number", "get_hash", "get_unlock"}
                /\ local[GroupTask].i = b
          /\ backendStateMux[b] = b =>
                pc[b] \in {"set_number", "set_hash", "set_unlock"}

\* The resolution cycle waits on a fetch while a caller is inside
\* GetConsensusGroup and a refresh is inside setBackendState.
C18_Witness ==
    /\ pc[GroupTask] = "fetching"
    /\ consensusGroupMux = Reader
    /\ \E b \in Backends : backendStateMux[b] = b

====
